---- MODULE Spec2Model ----
(***************************************************************************)
(* A model of the decode-and-verify core of Ciphey2 (ares):                *)
(*   - Decoders::run, the parallel dispatch engine                         *)
(*     (src/src/filtration_system/mod.rs),                                 *)
(*   - the decoder strategies' crack (src/src/decoders/*.rs),              *)
(*   - the checker dispatch (src/src/checkers/mod.rs),                     *)
(*   - the lazily initialised dictionaries (src/src/storage/mod.rs).       *)
(* Text is a sequence of Unicode scalar values (integers).                 *)
(***************************************************************************)
EXTENDS Integers, Sequences, FiniteSets, TLC

\* ------------------------------------------------------------------ bounds

\* The largest registry (Decoders.components) the dispatch engine is run on.
MaxStrategies == 3

\* The threads that access storage::DICTIONARIES.
MaxWorkers == 3

\* The files of the embedded dictionaries directory.
MaxFiles == 2

\* The longest generated text a strategy is called on.
MaxLen == 3

\* ------------------------------------------------------------ the state

VARIABLES
    \* --- Decoders::run ---
    components,   \* Decoders.components: per strategy, what its crack(text) does
    pc,           \* per strategy: where its closure invocation stands
    full,         \* rayon's short-circuit flag of try_for_each (a closure returned None)
    panicked,     \* a closure invocation panicked (rayon resumes the unwind in run)
    chan,         \* the mpsc channel's queue
    sent,         \* history: every CrackResult sent, in send order
    received,     \* history: every CrackResult the receive loop took
    all_results,  \* run's local Vec<CrackResult>
    phase,        \* "par": in try_for_each_with; "recv": in the while-let loop; "done"
    ret,          \* what run returned
    \* --- one call of a strategy's crack, or of the checker ---
    call_text,            \* the text crack (or check) is called on
    call_checker,         \* the CheckerTypes variant passed
    call_stage,           \* "ready", "caesar" (in the loop), "returned", "panicked", "checked"
    call_decoder,         \* the strategy called
    loop_shift,           \* Caesar: the loop variable
    loop_decoded_strings, \* Caesar: the Vec of the shifts' outputs
    call_results,         \* the CrackResult
    call_checks,          \* history: the calls of checker.check made, in order
    \* --- storage::DICTIONARIES ---
    corpus_utf8,          \* whether every embedded dictionary file is UTF-8
    dictionaries,         \* the Lazy: "uninit", "ready", or "poisoned" (its initialiser panicked)
    \* --- the threads that access storage::DICTIONARIES ---
    cell_state,           \* the Lazy's OnceCell: "INCOMPLETE", "RUNNING" or "COMPLETE"
    lazy_init,            \* the Lazy still holds its initialiser (it is taken when run)
    entries,              \* the initialiser's local `entries` map
    cell_value,           \* the OnceCell's value: None, or Some(map)
    init_runs,            \* history: how often the initialiser was started
    worker_pc,            \* per thread: where its access of DICTIONARIES stands
    worker_seen,          \* per thread: the map its access gave it
    worker_waited         \* history: the threads that blocked on a running initialiser

dvars == <<components, pc, full, panicked, chan, sent, received, all_results, phase, ret>>

cvars == <<call_text, call_checker, call_stage, call_decoder, loop_shift, loop_decoded_strings, call_results, call_checks, corpus_utf8, dictionaries>>

lvars == <<cell_state, lazy_init, entries, cell_value, init_runs, worker_pc, worker_seen, worker_waited>>

vars == <<dvars, cvars, lvars>>

\* ------------------------------------------------------------------- text

\* Option<T>
None == [some |-> FALSE]
Some(v) == [some |-> TRUE, val |-> v]

Pow2(n) == 2 ^ n

\* char::is_ascii_lowercase, is_ascii_uppercase, is_ascii_alphabetic
is_ascii_lowercase(c) == c \in 97..122
is_ascii_uppercase(c) == c \in 65..90
is_ascii_alphabetic(c) == is_ascii_lowercase(c) \/ is_ascii_uppercase(c)

\* char::is_whitespace, on the characters the model's texts hold
is_whitespace(c) ==
    \/ c \in {9, 10, 11, 12, 13, 32, 133, 160, 5760, 8232, 8233, 8239, 8287, 12288}
    \/ c \in 8192..8202

\* A reversal that leaves the character sequence as it is.
Reverse_Unchanged(s) == s

\* text.chars().rev().collect()
Reverse(s) == [k \in 1..Len(s) |-> s[Len(s) + 1 - k]]

RECURSIVE TrimStart(_)
TrimStart(s) ==
    IF s # <<>> /\ is_whitespace(Head(s)) THEN TrimStart(Tail(s)) ELSE s

\* str::trim
Trim(s) == Reverse(TrimStart(Reverse(TrimStart(s))))

RECURSIVE Flatten(_)
\* the concatenation of a sequence of sequences
Flatten(ss) == IF ss = <<>> THEN <<>> ELSE Head(ss) \o Flatten(Tail(ss))

\* The UTF-8 encoding of one scalar value.
Utf8OfChar(c) ==
    IF c < 128 THEN <<c>>
    ELSE IF c < 2048 THEN <<192 + (c \div 64), 128 + (c % 64)>>
    ELSE IF c < 65536
        THEN <<224 + (c \div 4096), 128 + ((c \div 64) % 64), 128 + (c % 64)>>
    ELSE <<240 + (c \div 262144), 128 + ((c \div 4096) % 64),
           128 + ((c \div 64) % 64), 128 + (c % 64)>>

\* str::as_bytes
as_bytes(s) == Flatten([k \in 1..Len(s) |-> Utf8OfChar(s[k])])

IsContinuation(b) == b \in 128..191

\* The number of bytes of the well-formed UTF-8 sequence that starts at
\* bytes[i], or 0 when none does (a stray continuation byte, an overlong or
\* surrogate encoding, a truncated sequence, a byte over 0xF4).
Utf8SeqLen(bytes, i) ==
    LET b0 == bytes[i]
        has(n) == i + n - 1 <= Len(bytes)
        cont(k) == IsContinuation(bytes[i + k])
    IN  IF b0 < 128 THEN 1
        ELSE IF b0 \in 194..223
            THEN IF has(2) /\ cont(1) THEN 2 ELSE 0
        ELSE IF b0 \in 224..239
            THEN IF has(3) /\ cont(2)
                    /\ bytes[i + 1] \in (IF b0 = 224 THEN 160..191
                                         ELSE IF b0 = 237 THEN 128..159
                                         ELSE 128..191)
                 THEN 3 ELSE 0
        ELSE IF b0 \in 240..244
            THEN IF has(4) /\ cont(2) /\ cont(3)
                    /\ bytes[i + 1] \in (IF b0 = 240 THEN 144..191
                                         ELSE IF b0 = 244 THEN 128..143
                                         ELSE 128..191)
                 THEN 4 ELSE 0
        ELSE 0

\* The scalar value of the well-formed sequence of n bytes at bytes[i].
Utf8Scalar(bytes, i, n) ==
    IF n = 1 THEN bytes[i]
    ELSE IF n = 2 THEN (bytes[i] - 192) * 64 + (bytes[i + 1] - 128)
    ELSE IF n = 3
        THEN (bytes[i] - 224) * 4096 + (bytes[i + 1] - 128) * 64 + (bytes[i + 2] - 128)
    ELSE (bytes[i] - 240) * 262144 + (bytes[i + 1] - 128) * 4096
            + (bytes[i + 2] - 128) * 64 + (bytes[i + 3] - 128)

RECURSIVE Utf8Valid(_, _)
Utf8Valid(bytes, i) ==
    IF i > Len(bytes) THEN TRUE
    ELSE LET n == Utf8SeqLen(bytes, i)
         IN  n # 0 /\ Utf8Valid(bytes, i + n)

\* Where no well-formed sequence starts at bytes[i]: the length of the longest
\* prefix of a well-formed sequence there (at least one byte), which
\* from_utf8_lossy replaces by one U+FFFD.
Utf8InvalidLen(bytes, i) ==
    LET b0 == bytes[i]
        has(n) == i + n - 1 <= Len(bytes)
        second_ok ==
            has(2) /\ bytes[i + 1] \in (IF b0 = 224 THEN 160..191
                                        ELSE IF b0 = 237 THEN 128..159
                                        ELSE IF b0 = 240 THEN 144..191
                                        ELSE IF b0 = 244 THEN 128..143
                                        ELSE 128..191)
    IN  IF b0 \in 224..239 THEN (IF second_ok THEN 2 ELSE 1)
        ELSE IF b0 \in 240..244
            THEN IF second_ok
                 THEN (IF has(3) /\ IsContinuation(bytes[i + 2]) THEN 3 ELSE 2)
                 ELSE 1
        ELSE 1

RECURSIVE Utf8Chars(_, _)
\* The scalar values of bytes[i..], an ill-formed part rendered as U+FFFD.
Utf8Chars(bytes, i) ==
    IF i > Len(bytes) THEN <<>>
    ELSE LET n == Utf8SeqLen(bytes, i)
         IN  IF n = 0
             THEN <<65533>> \o Utf8Chars(bytes, i + Utf8InvalidLen(bytes, i))
             ELSE <<Utf8Scalar(bytes, i, n)>> \o Utf8Chars(bytes, i + n)

\* String::from_utf8(bytes).ok()
from_utf8(bytes) == IF Utf8Valid(bytes, 1) THEN Some(Utf8Chars(bytes, 1)) ELSE None

\* String::from_utf8_lossy(bytes).to_string()
from_utf8_lossy(bytes) == Utf8Chars(bytes, 1)

\* ------------------------------------------------------- the transforms

\* The position of x in the sequence s, counted from 0; -1 when x is not in s.
IndexOf(s, x) ==
    IF \E k \in 1..Len(s) : s[k] = x
    THEN (CHOOSE k \in 1..Len(s) : s[k] = x) - 1
    ELSE -1

\* base64::URL_SAFE's decode table: A-Z a-z 0-9 - _ ; -1 for any other byte.
Base64UrlValue(b) ==
    IF b \in 65..90 THEN b - 65
    ELSE IF b \in 97..122 THEN b - 71
    ELSE IF b \in 48..57 THEN b + 4
    ELSE IF b = 45 THEN 62
    ELSE IF b = 95 THEN 63
    ELSE -1

\* base64::decode_config(bytes, base64::URL_SAFE).ok(): None on an input of
\* length 1 mod 4, a byte outside the alphabet, '=' anywhere but in the last
\* two places of the last quad, or set bits after the last whole byte.
base64_decode_url_safe(bytes) ==
    LET n == Len(bytes)
        pads == {k \in 1..n : bytes[k] = 61}
        m == n - Cardinality(pads)
        val(k) == Base64UrlValue(bytes[k])
        bit(j) == (val((j \div 6) + 1) \div Pow2(5 - (j % 6))) % 2
        nbytes == (m * 6) \div 8
        byte(k) ==
            bit(8 * k) * 128 + bit(8 * k + 1) * 64 + bit(8 * k + 2) * 32
            + bit(8 * k + 3) * 16 + bit(8 * k + 4) * 8 + bit(8 * k + 5) * 4
            + bit(8 * k + 6) * 2 + bit(8 * k + 7)
    IN  IF n % 4 = 1 THEN None
        ELSE IF \E k \in 1..n : bytes[k] # 61 /\ val(k) = -1 THEN None
        ELSE IF \E k \in pads : (k - 1) % 4 < 2 \/ (\E j \in (k + 1)..n : bytes[j] # 61)
            THEN None
        ELSE IF \E j \in (8 * nbytes)..(6 * m - 1) : bit(j) = 1 THEN None
        ELSE Some([k \in 1..nbytes |-> byte(k - 1)])

\* base64::decode_config(text.as_bytes(), base64::URL_SAFE).ok()
\*     .map(|inner| String::from_utf8(inner).ok())?
decode_base64_url_no_error_handling(text) ==
    LET decoded == base64_decode_url_safe(as_bytes(text))
    IN  IF decoded.some THEN from_utf8(decoded.val) ELSE None

\* The Z85 alphabet (ZeroMQ RFC 32); a character's value is its position.
Z85Alphabet ==
    <<48, 49, 50, 51, 52, 53, 54, 55, 56, 57, 97, 98, 99, 100, 101, 102, 103, 104,
      105, 106, 107, 108, 109, 110, 111, 112, 113, 114, 115, 116, 117, 118, 119,
      120, 121, 122, 65, 66, 67, 68, 69, 70, 71, 72, 73, 74, 75, 76, 77, 78, 79, 80,
      81, 82, 83, 84, 85, 86, 87, 88, 89, 90, 46, 45, 58, 43, 61, 94, 33, 47, 42, 63,
      38, 60, 62, 40, 41, 91, 93, 123, 125, 64, 37, 36, 35>>

\* z85::decode(bytes).ok(): five characters give four bytes, big-endian; None
\* on a length that is no multiple of 5, a byte outside the alphabet, or a
\* group whose value does not fit 32 bits.
z85_decode(bytes) ==
    LET n == Len(bytes)
        val(k) == IndexOf(Z85Alphabet, bytes[k])
        \* a group's value as <<high 16 bits and above, low 16 bits>>
        push(acc, d) == << acc[1] * 85 + ((acc[2] * 85 + d) \div 65536),
                           (acc[2] * 85 + d) % 65536 >>
        group(g) ==
            push(push(push(push(push(<<0, 0>>, val(5 * g + 1)), val(5 * g + 2)),
                           val(5 * g + 3)), val(5 * g + 4)), val(5 * g + 5))
        byte(k) == LET v == group(k \div 4)
                   IN  CASE k % 4 = 0 -> v[1] \div 256
                         [] k % 4 = 1 -> v[1] % 256
                         [] k % 4 = 2 -> v[2] \div 256
                         [] OTHER     -> v[2] % 256
    IN  IF n % 5 # 0 THEN None
        ELSE IF \E k \in 1..n : val(k) = -1 THEN None
        ELSE IF \E g \in 0..((n \div 5) - 1) : group(g)[1] >= 65536 THEN None
        ELSE Some([k \in 1..(4 * (n \div 5)) |-> byte(k - 1)])

\* The Z85 helper with String::from_utf8_lossy for String::from_utf8: bytes
\* that are no UTF-8 then give a text.
decode_z85_lossy(text) ==
    LET decoded == z85_decode(as_bytes(text))
    IN  IF decoded.some THEN Some(from_utf8_lossy(decoded.val)) ELSE None

\* z85::decode(text.as_bytes()).ok().map(|inner| String::from_utf8(inner).ok())?
decode_z85_no_error_handling(text) ==
    LET decoded == z85_decode(as_bytes(text))
    IN  IF decoded.some THEN from_utf8(decoded.val) ELSE None

\* The basE91 alphabet; a character's value is its position.
Base91Alphabet ==
    <<65, 66, 67, 68, 69, 70, 71, 72, 73, 74, 75, 76, 77, 78, 79, 80, 81, 82, 83, 84,
      85, 86, 87, 88, 89, 90, 97, 98, 99, 100, 101, 102, 103, 104, 105, 106, 107,
      108, 109, 110, 111, 112, 113, 114, 115, 116, 117, 118, 119, 120, 121, 122, 48,
      49, 50, 51, 52, 53, 54, 55, 56, 57, 33, 35, 36, 37, 38, 40, 41, 42, 43, 44, 46,
      47, 58, 59, 60, 61, 62, 63, 64, 91, 93, 94, 95, 96, 123, 124, 125, 126, 34>>

RECURSIVE Base91Flush(_, _)
\* do { out(b as u8); b >>= 8; n -= 8 } while n > 7, on the state <<b, n>>:
\* the bytes put out and the state left.
Base91Flush(b, n) ==
    LET rest == IF n - 8 > 7 THEN Base91Flush(b \div 256, n - 8)
                ELSE [out |-> <<>>, b |-> b \div 256, n |-> n - 8]
    IN  [out |-> <<b % 256>> \o rest.out, b |-> rest.b, n |-> rest.n]

RECURSIVE Base91Loop(_, _, _, _, _)
\* base91's decode loop from bytes[i] on, with the pending value v (-1: none),
\* the bit queue b and its length n. A byte outside the alphabet is skipped.
Base91Loop(bytes, i, v, b, n) ==
    IF i > Len(bytes)
    THEN IF v # -1 THEN <<(b + v * Pow2(n)) % 256>> ELSE <<>>
    ELSE LET d == IndexOf(Base91Alphabet, bytes[i])
         IN  IF d = -1 THEN Base91Loop(bytes, i + 1, v, b, n)
             ELSE IF v = -1 THEN Base91Loop(bytes, i + 1, d, b, n)
             ELSE LET w == v + d * 91
                      b2 == b + w * Pow2(n)
                      n2 == n + (IF w % 8192 > 88 THEN 13 ELSE 14)
                      f == Base91Flush(b2, n2)
                  IN  f.out \o Base91Loop(bytes, i + 1, -1, f.b, f.n)

\* base91::slice_decode
base91_slice_decode(bytes) == Base91Loop(bytes, 1, -1, 0, 0)

\* Some(String::from_utf8_lossy(&base91::slice_decode(text.as_bytes())).to_string())
decode_base91_no_error_handling(text) ==
    Some(from_utf8_lossy(base91_slice_decode(as_bytes(text))))

\* fn caesar(cipher, shift): each ASCII letter is moved shift places on within
\* its case, in u8 arithmetic; every other character is kept.
\* A shift without the modulo that keeps the letter in its alphabet.
caesar_char_NoWrap(c, shift) ==
    IF is_ascii_alphabetic(c) THEN ((c % 256) + shift) % 256 ELSE c

\* (What a build without overflow checks computes: u8 arithmetic wraps.)
caesar_char(c, shift) ==
    IF is_ascii_alphabetic(c)
    THEN LET first == IF is_ascii_lowercase(c) THEN 97 ELSE 65
         IN  (first + ((((((c % 256) + shift) % 256) - first) % 256) % 26)) % 256
    ELSE c

\* c as u8 + shift - first leaves the range of u8 at the addition or at the
\* subtraction: a build with overflow checks panics there.
caesar_char_overflows(c, shift) ==
    /\ is_ascii_alphabetic(c)
    /\ LET first == IF is_ascii_lowercase(c) THEN 97 ELSE 65
       IN  \/ c + shift > 255
           \/ c + shift - first < 0
           \/ first + ((c + shift - first) % 26) > 255

caesar_overflows(cipher, shift) ==
    \E k \in 1..Len(cipher) : caesar_char_overflows(cipher[k], shift)

caesar(cipher, shift) == [k \in 1..Len(cipher) |-> caesar_char(cipher[k], shift)]

\* _morse_to_alphanumeric_dictionary(): the pairs <<morse token, text>>.
morse_to_alphanumeric_dictionary ==
    {
    <<<<46, 45>>, <<65>>>>, <<<<45, 46, 46, 46>>, <<66>>>>,
    <<<<45, 46, 45, 46>>, <<67>>>>, <<<<45, 46, 46>>, <<68>>>>, <<<<46>>, <<69>>>>,
    <<<<46, 46, 45, 46>>, <<70>>>>, <<<<45, 45, 46>>, <<71>>>>,
    <<<<46, 46, 46, 46>>, <<72>>>>, <<<<46, 46>>, <<73>>>>,
    <<<<46, 45, 45, 45>>, <<74>>>>, <<<<45, 46, 45>>, <<75>>>>,
    <<<<46, 45, 46, 46>>, <<76>>>>, <<<<45, 45>>, <<77>>>>, <<<<45, 46>>, <<78>>>>,
    <<<<45, 45, 45>>, <<79>>>>, <<<<46, 45, 45, 46>>, <<80>>>>,
    <<<<45, 45, 46, 45>>, <<81>>>>, <<<<46, 45, 46>>, <<82>>>>,
    <<<<46, 46, 46>>, <<83>>>>, <<<<45>>, <<84>>>>, <<<<46, 46, 45>>, <<85>>>>,
    <<<<46, 46, 46, 45>>, <<86>>>>, <<<<46, 45, 45>>, <<87>>>>,
    <<<<45, 46, 46, 45>>, <<88>>>>, <<<<45, 46, 45, 45>>, <<89>>>>,
    <<<<45, 45, 46, 46>>, <<90>>>>, <<<<46, 45, 45, 45, 45>>, <<49>>>>,
    <<<<46, 46, 45, 45, 45>>, <<50>>>>, <<<<46, 46, 46, 45, 45>>, <<51>>>>,
    <<<<46, 46, 46, 46, 45>>, <<52>>>>, <<<<46, 46, 46, 46, 46>>, <<53>>>>,
    <<<<45, 46, 46, 46, 46>>, <<54>>>>, <<<<45, 45, 46, 46, 46>>, <<55>>>>,
    <<<<45, 45, 45, 46, 46>>, <<56>>>>, <<<<45, 45, 45, 45, 46>>, <<57>>>>,
    <<<<45, 45, 45, 45, 45>>, <<48>>>>, <<<<46, 45, 46, 46, 46>>, <<38>>>>,
    <<<<46, 45, 45, 46, 45, 46>>, <<64>>>>, <<<<45, 45, 45, 46, 46, 46>>, <<58>>>>,
    <<<<45, 45, 46, 46, 45, 45>>, <<44>>>>, <<<<46, 45, 46, 45, 46, 45>>, <<46>>>>,
    <<<<46, 45, 45, 45, 45, 46>>, <<39>>>>, <<<<46, 45, 46, 46, 45, 46>>, <<34>>>>,
    <<<<46, 46, 45, 45, 46, 46>>, <<63>>>>, <<<<45, 46, 46, 45, 46>>, <<47>>>>,
    <<<<45, 46, 46, 46, 45>>, <<61>>>>, <<<<46, 45, 46, 45, 46>>, <<43>>>>,
    <<<<45, 46, 46, 46, 46, 45>>, <<45>>>>, <<<<45, 46, 45, 45, 46>>, <<40>>>>,
    <<<<45, 46, 45, 45, 46, 45>>, <<41>>>>, <<<<47>>, <<32>>>>,
    <<<<45, 46, 45, 46, 45, 45>>, <<33>>>>, <<<<32>>, <<32>>>>, <<<<>>, <<>>>>
    }

RECURSIVE SplitFrom(_, _, _)
\* str::split on the character sep: the pieces of s[i..], cur being the piece
\* under way. n separators give n + 1 pieces, empty ones included.
SplitFrom(s, sep, cur) ==
    IF s = <<>> THEN <<cur>>
    ELSE IF Head(s) = sep THEN <<cur>> \o SplitFrom(Tail(s), sep, <<>>)
    ELSE SplitFrom(Tail(s), sep, Append(cur, Head(s)))

\* text.split(" ").collect()
split(s, sep) == SplitFrom(s, sep, <<>>)

\* dictionary_decode(tokens, dictionary): every token mapped through the
\* dictionary and the images concatenated; None when a token is no key.
dictionary_decode(tokens, dictionary) ==
    LET keys == {p[1] : p \in dictionary}
        image(t) == (CHOOSE p \in dictionary : p[1] = t)[2]
    IN  IF \E k \in 1..Len(tokens) : tokens[k] \notin keys THEN None
        ELSE Some(Flatten([k \in 1..Len(tokens) |-> image(tokens[k])]))

\* check_string_success(decoded_text, original_text): the no-op guard. False
\* when the decoded text is empty, is the original text, or differs from it
\* only in leading or trailing whitespace.
check_string_success(decoded_text, original_text) ==
    IF decoded_text = <<>> THEN FALSE
    ELSE IF decoded_text = original_text THEN FALSE
    ELSE IF Trim(decoded_text) = Trim(original_text) THEN FALSE
    ELSE TRUE

\* ------------------------------------------------------------ the checkers

\* Texts the repository's tests pin a verdict on (src/src/checkers/mod.rs):
\* "192.168.0.1" is identified by the pattern checker, "and" is not and goes on
\* to the dictionary, which holds it.
IpAddressText == <<49, 57, 50, 46, 49, 54, 56, 46, 48, 46, 49>>
AndText == <<97, 110, 100>>

\* What the two checkers say about a text is a fact about the regular
\* expressions and the word lists, which are outside the model: an oracle o
\* gives it, except for the texts above. When the corpus is not UTF-8 the
\* lexical checker's access to DICTIONARIES panics: the Lazy's initialiser
\* runs on the first access and panics in contents_utf8().expect(..), and an
\* access to the poisoned Lazy panics again.
Oracles == [pattern : BOOLEAN, lexical : {"yes", "no"}]

PatternSays(text, o) ==
    IF text = IpAddressText THEN TRUE
    ELSE IF text = AndText THEN FALSE
    ELSE o.pattern

LexicalSays(text, o) ==
    IF ~corpus_utf8 THEN "panic"
    ELSE IF text = AndText THEN "yes"
    ELSE o.lexical

\* CheckResult, and the call it came from: the checkers it invoked, in order,
\* each with what it answered ("yes", "no", or "panic" when it did not answer).
CheckResult(name, text, identified) ==
    [is_identified |-> identified, checker_name |-> name, text |-> text]

Invoked(name, answer) == [name |-> name, answer |-> answer]

Checked(res, invoked) == [panicked |-> FALSE, res |-> res, invoked |-> invoked]
CheckPanicked(invoked) == [panicked |-> TRUE, invoked |-> invoked]

\* Checker::<LemmeKnow>::check
LemmeKnow_check(text, o) ==
    LET identified == PatternSays(text, o)
    IN  Checked(CheckResult("LemmeKnow", text, identified),
                <<Invoked("LemmeKnow", IF identified THEN "yes" ELSE "no")>>)

\* Checker::<EnglishChecker>::check, which reads storage::DICTIONARIES
English_check(text, o) ==
    LET answer == LexicalSays(text, o)
    IN  IF answer = "panic" THEN CheckPanicked(<<Invoked("English", "panic")>>)
        ELSE Checked(CheckResult("English", text, answer = "yes"),
                     <<Invoked("English", answer)>>)

\* Checker::<Athena>::check: the pattern checker, then the lexical checker;
\* the first positive verdict is returned, and a negative one when none is.
Athena_check(text, o) ==
    LET lemmeknow_result == LemmeKnow_check(text, o)
    IN  IF lemmeknow_result.res.is_identified THEN lemmeknow_result
        ELSE LET english_result == English_check(text, o)
                 invoked == lemmeknow_result.invoked \o english_result.invoked
             IN  IF english_result.panicked THEN CheckPanicked(invoked)
                 ELSE IF english_result.res.is_identified
                     THEN Checked(english_result.res, invoked)
                 ELSE Checked(CheckResult("Athena", text, FALSE), invoked)

CheckerVariants == {"CheckLemmeKnow", "CheckEnglish", "CheckAthena"}

\* CheckerTypes::check with the CheckAthena arm calling the lexical checker
\* alone: what the ordering of the combined checker is set against.
CheckerTypes_check_LexicalOnly(checker, text, o) ==
    CASE checker = "CheckLemmeKnow" -> LemmeKnow_check(text, o)
      [] checker = "CheckEnglish" -> English_check(text, o)
      [] checker = "CheckAthena" -> English_check(text, o)

\* CheckerTypes::check: calls the check function of the wrapped Checker.
CheckerTypes_check(checker, text, o) ==
    CASE checker = "CheckLemmeKnow" -> LemmeKnow_check(text, o)
      [] checker = "CheckEnglish" -> English_check(text, o)
      [] checker = "CheckAthena" -> Athena_check(text, o)

\* ------------------------------------------------------------ CrackResult

\* CrackResult::new(decoder, text)
CrackResult_new(decoder, text) ==
    [decoder |-> decoder, encrypted_text |-> text, unencrypted_text |-> None,
     success |-> FALSE, checker_name |-> ""]

\* CrackResult::update_checker(&checker_result)
update_checker(results, checker_result) ==
    [results EXCEPT !.success = checker_result.is_identified,
                    !.checker_name = checker_result.checker_name]

\* What a call of crack did: it returned results, or it panicked; and the
\* calls of the checker it made, in order.
CrackReturned(results, calls) == [panicked |-> FALSE, results |-> results, calls |-> calls]
CrackPanicked(calls) == [panicked |-> TRUE, calls |-> calls]

\* DICTIONARIES after the calls of the checker in calls: the lexical checker's
\* first access runs the Lazy's initialiser; the checkers not invoked and the
\* pattern checker leave it alone.
DictionariesAfter(calls) ==
    IF \E k \in 1..Len(calls) : \E j \in 1..Len(calls[k].invoked) :
            calls[k].invoked[j].name = "English"
    THEN IF corpus_utf8 THEN "ready" ELSE "poisoned"
    ELSE dictionaries

\* ------------------------------------------------------- the strategies

\* Decoder<ReverseDecoder>::crack without `if text.is_empty() { return result; }`.
ReverseDecoder_crack_NoEmptyCheck(text, checker, o) ==
    LET result == CrackResult_new("Reverse", text)
        rev_str == Reverse(text)
        checker_res == CheckerTypes_check(checker, rev_str, o)
    IN  IF checker_res.panicked THEN CrackPanicked(<<checker_res>>)
        ELSE CrackReturned(
               update_checker([result EXCEPT !.unencrypted_text = Some(<<rev_str>>)],
                              checker_res.res),
               <<checker_res>>)

\* Decoder<ReverseDecoder>::crack
ReverseDecoder_crack(text, checker, o) ==
    LET result == CrackResult_new("Reverse", text)
    IN  IF text = <<>> THEN CrackReturned(result, <<>>)
        ELSE LET rev_str == Reverse(text)
                 checker_res == CheckerTypes_check(checker, rev_str, o)
             IN  IF checker_res.panicked THEN CrackPanicked(<<checker_res>>)
                 ELSE CrackReturned(
                        update_checker([result EXCEPT !.unencrypted_text = Some(<<rev_str>>)],
                                       checker_res.res),
                        <<checker_res>>)

\* The shared body with checker.check(text) for checker.check(&decoded_text):
\* the verdict is then not one on the candidate.
DecodedCrack_ChecksInput(decoder, decoded_text, text, checker, o) ==
    LET results == CrackResult_new(decoder, text)
    IN  IF ~decoded_text.some THEN CrackReturned(results, <<>>)
        ELSE IF ~check_string_success(decoded_text.val, text)
            THEN CrackReturned(results, <<>>)
        ELSE LET checker_result == CheckerTypes_check(checker, text, o)
             IN  IF checker_result.panicked THEN CrackPanicked(<<checker_result>>)
                 ELSE CrackReturned(
                        update_checker(
                            [results EXCEPT !.unencrypted_text = Some(<<decoded_text.val>>)],
                            checker_result.res),
                        <<checker_result>>)

\* The body the fixed-alphabet and the Morse strategies share after their
\* decode: None is "no result"; the no-op guard; the checker; the candidate.
DecodedCrack(decoder, decoded_text, text, checker, o) ==
    LET results == CrackResult_new(decoder, text)
    IN  IF ~decoded_text.some THEN CrackReturned(results, <<>>)
        ELSE IF ~check_string_success(decoded_text.val, text)
            THEN CrackReturned(results, <<>>)
        ELSE LET checker_result == CheckerTypes_check(checker, decoded_text.val, o)
             IN  IF checker_result.panicked THEN CrackPanicked(<<checker_result>>)
                 ELSE CrackReturned(
                        update_checker(
                            [results EXCEPT !.unencrypted_text = Some(<<decoded_text.val>>)],
                            checker_result.res),
                        <<checker_result>>)

\* Decoder<Base64URLDecoder>::crack
Base64URLDecoder_crack(text, checker, o) ==
    DecodedCrack("base64_url", decode_base64_url_no_error_handling(text), text, checker, o)

\* Decoder<Base91Decoder>::crack
Base91Decoder_crack(text, checker, o) ==
    DecodedCrack("base91", decode_base91_no_error_handling(text), text, checker, o)

\* Decoder<Z85Decoder>::crack
Z85Decoder_crack(text, checker, o) ==
    DecodedCrack("Z85", decode_z85_no_error_handling(text), text, checker, o)

\* A Morse crack that decodes the tokens it knows and leaves out the others: a
\* partial output.
MorseCodeDecoder_crack_Partial(text, checker, o) ==
    LET IsKey(t) == \E p \in morse_to_alphanumeric_dictionary : p[1] = t
    IN  DecodedCrack("Morse Code",
                     dictionary_decode(SelectSeq(split(text, 32), IsKey),
                                       morse_to_alphanumeric_dictionary),
                     text, checker, o)

\* Decoder<MorseCodeDecoder>::crack
MorseCodeDecoder_crack(text, checker, o) ==
    DecodedCrack("Morse Code",
                 dictionary_decode(split(text, 32), morse_to_alphanumeric_dictionary),
                 text, checker, o)

\* A turn of the loop that does not return on an identified output but goes
\* on to the next shift.
CaesarDecoder_crack_turn_GoesOn(text, shift, decoded_strings, results, checker, o) ==
    LET decoded_text == caesar(text, shift)
        pushed == Append(decoded_strings, decoded_text)
        borrowed_decoded_text == pushed[Len(pushed)]
        loop(stage, res, calls) ==
            [stage |-> stage, shift |-> shift + 1, decoded_strings |-> pushed,
             results |-> res, calls |-> calls]
    IN  IF ~check_string_success(borrowed_decoded_text, text)
        THEN loop("returned", results, <<>>)
        ELSE LET checker_result == CheckerTypes_check(checker, borrowed_decoded_text, o)
             IN  IF checker_result.panicked THEN loop("panicked", results, <<checker_result>>)
                 ELSE loop("caesar", results, <<checker_result>>)

\* A turn of the loop without the no-op guard: the output goes to the checker
\* whatever it is.
CaesarDecoder_crack_turn_NoGuard(text, shift, decoded_strings, results, checker, o) ==
    LET decoded_text == caesar(text, shift)
        pushed == Append(decoded_strings, decoded_text)
        borrowed_decoded_text == pushed[Len(pushed)]
        loop(stage, res, calls) ==
            [stage |-> stage, shift |-> shift + 1, decoded_strings |-> pushed,
             results |-> res, calls |-> calls]
        checker_result == CheckerTypes_check(checker, borrowed_decoded_text, o)
    IN  IF checker_result.panicked THEN loop("panicked", results, <<checker_result>>)
        ELSE IF checker_result.res.is_identified
            THEN loop("returned",
                      update_checker(
                          [results EXCEPT
                              !.unencrypted_text = Some(<<borrowed_decoded_text>>)],
                          checker_result.res),
                      <<checker_result>>)
        ELSE loop("caesar", results, <<checker_result>>)

\* Decoder<CaesarDecoder>::crack, one turn of `for shift in 1..=25`: what the
\* loop's state is after the turn, and whether crack returned in it.
CaesarDecoder_crack_turn(text, shift, decoded_strings, results, checker, o) ==
    LET decoded_text == caesar(text, shift)
        pushed == Append(decoded_strings, decoded_text)
        borrowed_decoded_text == pushed[Len(pushed)]
        loop(stage, res, calls) ==
            [stage |-> stage, shift |-> shift + 1, decoded_strings |-> pushed,
             results |-> res, calls |-> calls]
    IN  IF ~check_string_success(borrowed_decoded_text, text)
        THEN loop("returned", results, <<>>)
        ELSE LET checker_result == CheckerTypes_check(checker, borrowed_decoded_text, o)
             IN  IF checker_result.panicked THEN loop("panicked", results, <<checker_result>>)
                 ELSE IF checker_result.res.is_identified
                     THEN loop("returned",
                               update_checker(
                                   [results EXCEPT
                                       !.unencrypted_text = Some(<<borrowed_decoded_text>>)],
                                   checker_result.res),
                               <<checker_result>>)
                 ELSE loop("caesar", results, <<checker_result>>)

\* Decoder<CaesarDecoder>::crack after the loop: all the shifts' outputs are
\* the candidates, unverified.
CaesarDecoder_crack_exhausted(decoded_strings, results) ==
    [results EXCEPT !.unencrypted_text = Some(decoded_strings)]

\* ------------------------------------------- the strategies, one call each

\* The characters of the generated texts: a space, Morse's dot and dash, a
\* letter, a four-byte character.
Alphabet == {32, 45, 46, 97, 128514}

\* Texts the sources' examples and tests use, and encodings of short words:
\* "stac", "and", "192.168.0.1", "noon", "dna", "boe" (and, shifted by 1),
\* "YQ" and "YQ==" (base64 of "a"), "vprOM" (Z85 of "aaaa"), "po;I" (basE91 of
\* "and"), ".- -. -.." and ".- / -." (Morse), " and ", "Zz", "a/Z"; malformed
\* ciphertexts: "YQ+/" (base64 with + and /), "_w" (base64 of the byte FF),
\* "12ab" (four characters of Z85), "%nSc0" (Z85 of four bytes FF), ".- a"
\* (Morse with a token outside the table), ".-  -." (Morse with two
\* consecutive spaces: an empty token between two letters), "hello my name is
\* panicky mc panic face!" (the text of base91_decode_handles_panics).
SampleTexts ==
    { <<115, 116, 97, 99>>, <<97, 110, 100>>,
      <<49, 57, 50, 46, 49, 54, 56, 46, 48, 46, 49>>,
      <<110, 111, 111, 110>>, <<100, 110, 97>>, <<98, 111, 101>>,
      <<89, 81>>, <<89, 81, 61, 61>>, <<118, 112, 114, 79, 77>>,
      <<112, 111, 59, 73>>, <<46, 45, 32, 45, 46, 32, 45, 46, 46>>,
      <<46, 45, 32, 47, 32, 45, 46>>, <<32, 97, 110, 100, 32>>,
      <<90, 122>>, <<97, 47, 90>>,
      <<89, 81, 43, 47>>, <<95, 119>>, <<49, 50, 97, 98>>, <<37, 110, 83, 99, 48>>,
      <<46, 45, 32, 97>>, <<46, 45, 32, 32, 45, 46>>,
      <<104, 101, 108, 108, 111, 32, 109, 121, 32, 110, 97, 109, 101, 32, 105, 115,
        32, 112, 97, 110, 105, 99, 107, 121, 32, 109, 99, 32, 112, 97, 110, 105, 99,
        32, 102, 97, 99, 101, 33>> }

Texts == UNION {[1..n -> Alphabet] : n \in 0..MaxLen} \cup SampleTexts

NoResults == CrackResult_new("", <<>>)

InitCrack ==
    /\ call_text \in Texts
    /\ call_checker \in CheckerVariants
    /\ call_stage = "ready"
    /\ call_decoder = ""
    /\ loop_shift = 0
    /\ loop_decoded_strings = <<>>
    /\ call_results = NoResults
    /\ call_checks = <<>>
    /\ corpus_utf8 \in BOOLEAN
    /\ dictionaries = "uninit"

\* A call of crack that is one step: it returns or panics.
CrackOnce(name, outcome) ==
    /\ call_stage = "ready"
    /\ call_decoder' = name
    /\ call_stage' = IF outcome.panicked THEN "panicked" ELSE "returned"
    /\ call_results' = IF outcome.panicked THEN call_results ELSE outcome.results
    /\ call_checks' = outcome.calls
    /\ dictionaries' = DictionariesAfter(outcome.calls)
    /\ UNCHANGED <<call_text, call_checker, loop_shift, loop_decoded_strings, corpus_utf8>>
    /\ UNCHANGED <<dvars, lvars>>

CrackReverse == \E o \in Oracles : CrackOnce("Reverse", ReverseDecoder_crack(call_text, call_checker, o))

CrackBase64URL ==
    \E o \in Oracles : CrackOnce("base64_url", Base64URLDecoder_crack(call_text, call_checker, o))

CrackBase91 == \E o \in Oracles : CrackOnce("base91", Base91Decoder_crack(call_text, call_checker, o))

CrackZ85 == \E o \in Oracles : CrackOnce("Z85", Z85Decoder_crack(call_text, call_checker, o))

CrackMorse == \E o \in Oracles : CrackOnce("Morse Code", MorseCodeDecoder_crack(call_text, call_checker, o))

\* let mut results = CrackResult::new(self, text); let mut decoded_strings = Vec::new();
CrackCaesarBegins ==
    /\ call_stage = "ready"
    /\ call_decoder' = "Caesar Cipher"
    /\ call_stage' = "caesar"
    /\ loop_shift' = 1
    /\ loop_decoded_strings' = <<>>
    /\ call_results' = CrackResult_new("Caesar Cipher", call_text)
    /\ UNCHANGED <<call_text, call_checker, call_checks, corpus_utf8, dictionaries>>
    /\ UNCHANGED <<dvars, lvars>>

\* for shift in 1..=25 { .. }
CrackCaesarTurn ==
    /\ call_stage = "caesar"
    /\ loop_shift <= 25
    /\ \E o \in Oracles :
        LET after == CaesarDecoder_crack_turn(call_text, loop_shift, loop_decoded_strings, call_results, call_checker, o)
        IN  /\ call_stage' = after.stage
            /\ loop_shift' = after.shift
            /\ loop_decoded_strings' = after.decoded_strings
            /\ call_results' = after.results
            /\ call_checks' = call_checks \o after.calls
            /\ dictionaries' = DictionariesAfter(after.calls)
    /\ UNCHANGED <<call_text, call_checker, call_decoder, corpus_utf8>>
    /\ UNCHANGED <<dvars, lvars>>

\* results.unencrypted_text = Some(decoded_strings); results
CrackCaesarExhausted ==
    /\ call_stage = "caesar"
    /\ loop_shift > 25
    /\ call_results' = CaesarDecoder_crack_exhausted(loop_decoded_strings, call_results)
    /\ call_stage' = "returned"
    /\ UNCHANGED <<call_text, call_checker, call_decoder, loop_shift, loop_decoded_strings, call_checks, corpus_utf8, dictionaries>>
    /\ UNCHANGED <<dvars, lvars>>

\* checker.check(text), called directly as the tests of the checkers do.
CheckText ==
    /\ call_stage = "ready"
    /\ \E o \in Oracles :
        LET outcome == CheckerTypes_check(call_checker, call_text, o)
        IN  /\ call_checks' = <<outcome>>
            /\ call_stage' = IF outcome.panicked THEN "check panicked" ELSE "checked"
            /\ dictionaries' = DictionariesAfter(<<outcome>>)
    /\ UNCHANGED <<call_text, call_checker, call_decoder, loop_shift, loop_decoded_strings, call_results, corpus_utf8>>
    /\ UNCHANGED <<dvars, lvars>>

NextCrack ==
    \/ CrackReverse
    \/ CrackBase64URL
    \/ CrackBase91
    \/ CrackZ85
    \/ CrackMorse
    \/ CrackCaesarBegins
    \/ CrackCaesarTurn
    \/ CrackCaesarExhausted
    \/ CheckText

\* ------------------------------------------------- Decoders::run (dispatch)

\* What a registered trait object's crack(text, &checker) does on this call's
\* text: returns success = true, returns success = false, or panics.
Behaviours == {"success", "failure", "fault"}

Strategies == 1..Len(components)

\* The CrackResult strategy i's crack returns (its decoder field names the strategy).
CrackResultOf(i) == [decoder |-> i, success |-> components[i] = "success"]

\* MyResults and the outcomes of a call of run.
NotReturned == [variant |-> "NotReturned"]
Unwound == [variant |-> "Panic"]
Break(r) == [variant |-> "Break", value |-> r]
Continue(rs) == [variant |-> "Continue", value |-> rs]

\* let (sender, receiver) = channel(); the registry is any Vec of trait objects.
InitRun ==
    /\ components \in UNION {[1..n -> Behaviours] : n \in 0..MaxStrategies}
    /\ pc = [i \in 1..Len(components) |-> "idle"]
    /\ full = FALSE
    /\ panicked = FALSE
    /\ chan = <<>>
    /\ sent = <<>>
    /\ received = <<>>
    /\ all_results = <<>>
    /\ phase = "par"
    /\ ret = NotReturned

\* An item taken without regard to the short-circuit flag.
StartCrack_IgnoresFull(i) ==
    /\ phase = "par"
    /\ pc[i] = "idle"
    /\ pc' = [pc EXCEPT ![i] = "running"]
    /\ UNCHANGED <<components, full, panicked, chan, sent, received, all_results, phase, ret>>
    /\ UNCHANGED <<cvars, lvars>>

\* rayon takes item i: the consumer is not full, so the closure is called.
StartCrack(i) ==
    /\ phase = "par"
    /\ pc[i] = "idle"
    /\ ~full
    /\ pc' = [pc EXCEPT ![i] = "running"]
    /\ UNCHANGED <<components, full, panicked, chan, sent, received, all_results, phase, ret>>
    /\ UNCHANGED <<cvars, lvars>>

\* let results = i.crack(text, &checker);   (a panic unwinds out of the closure)
CrackReturns(i) ==
    /\ phase = "par"
    /\ pc[i] = "running"
    /\ IF components[i] = "fault"
       THEN /\ pc' = [pc EXCEPT ![i] = "panicked"]
            /\ panicked' = TRUE
       ELSE /\ pc' = [pc EXCEPT ![i] = "cracked"]
            /\ UNCHANGED panicked
    /\ UNCHANGED <<components, full, chan, sent, received, all_results, phase, ret>>
    /\ UNCHANGED <<cvars, lvars>>

\* A send that queues the CrackResult twice: what a duplicating channel does.
SendResult_Twice(i) ==
    /\ phase = "par"
    /\ pc[i] = "cracked"
    /\ chan' = Append(Append(chan, CrackResultOf(i)), CrackResultOf(i))
    /\ sent' = Append(sent, CrackResultOf(i))
    /\ pc' = [pc EXCEPT ![i] = "sent"]
    /\ UNCHANGED <<components, full, panicked, received, all_results, phase, ret>>
    /\ UNCHANGED <<cvars, lvars>>

\* s.send(results).expect(..): the channel is unbounded and the receiver alive.
SendResult(i) ==
    /\ phase = "par"
    /\ pc[i] = "cracked"
    /\ chan' = Append(chan, CrackResultOf(i))
    /\ sent' = Append(sent, CrackResultOf(i))
    /\ pc' = [pc EXCEPT ![i] = "sent"]
    /\ UNCHANGED <<components, full, panicked, received, all_results, phase, ret>>
    /\ UNCHANGED <<cvars, lvars>>

\* The closure returns None on success (rayon marks the consumer full), else Some(()).
ClosureReturns(i) ==
    /\ phase = "par"
    /\ pc[i] = "sent"
    /\ full' = (full \/ CrackResultOf(i).success)
    /\ pc' = [pc EXCEPT ![i] = "returned"]
    /\ UNCHANGED <<components, panicked, chan, sent, received, all_results, phase, ret>>
    /\ UNCHANGED <<cvars, lvars>>

InFlight == {i \in Strategies : pc[i] \in {"running", "cracked", "sent"}}

\* A parallel phase that ends without joining the invocations in flight, as
\* detached tasks would allow.
ParallelPhaseEnds_Detached ==
    /\ phase = "par"
    /\ IF panicked
       THEN /\ phase' = "done"
            /\ ret' = Unwound
       ELSE /\ phase' = "recv"
            /\ UNCHANGED ret
    /\ UNCHANGED <<components, pc, full, panicked, chan, sent, received, all_results>>
    /\ UNCHANGED <<cvars, lvars>>

\* try_for_each_with returns: no invocation is in flight, and every item not
\* taken is skipped (the consumer is full, or a panic cut its leaf short). The
\* senders are dropped. A panic of a closure is resumed in run, which unwinds.
ParallelPhaseEnds ==
    /\ phase = "par"
    /\ InFlight = {}
    /\ \A i \in Strategies : pc[i] = "idle" => (full \/ panicked)
    /\ IF panicked
       THEN /\ phase' = "done"
            /\ ret' = Unwound
       ELSE /\ phase' = "recv"
            /\ UNCHANGED ret
    /\ UNCHANGED <<components, pc, full, panicked, chan, sent, received, all_results>>
    /\ UNCHANGED <<cvars, lvars>>

\* A consumer that takes the newest queued result, not the oldest.
Receive_Newest ==
    /\ phase = "recv"
    /\ chan # <<>>
    /\ LET result == chan[Len(chan)] IN
        /\ chan' = SubSeq(chan, 1, Len(chan) - 1)
        /\ received' = Append(received, result)
        /\ IF result.success
           THEN /\ ret' = Break(result)
                /\ phase' = "done"
                /\ UNCHANGED all_results
           ELSE /\ all_results' = Append(all_results, result)
                /\ UNCHANGED <<ret, phase>>
    /\ UNCHANGED <<components, pc, full, panicked, sent>>
    /\ UNCHANGED <<cvars, lvars>>

\* while let Ok(result) = receiver.recv() { if result.success { return Break } push }
Receive ==
    /\ phase = "recv"
    /\ chan # <<>>
    /\ LET result == Head(chan) IN
        /\ chan' = Tail(chan)
        /\ received' = Append(received, result)
        /\ IF result.success
           THEN /\ ret' = Break(result)
                /\ phase' = "done"
                /\ UNCHANGED all_results
           ELSE /\ all_results' = Append(all_results, result)
                /\ UNCHANGED <<ret, phase>>
    /\ UNCHANGED <<components, pc, full, panicked, sent>>
    /\ UNCHANGED <<cvars, lvars>>

\* A recv() that blocks on the empty queue for ever, as it does while a sender
\* is alive.
ReceiveDisconnected_Blocks ==
    /\ FALSE
    /\ UNCHANGED vars

\* recv() is Err: the queue is empty and every sender is dropped.
\* MyResults::Continue(all_results)
ReceiveDisconnected ==
    /\ phase = "recv"
    /\ chan = <<>>
    /\ ret' = Continue(all_results)
    /\ phase' = "done"
    /\ UNCHANGED <<components, pc, full, panicked, chan, sent, received, all_results>>
    /\ UNCHANGED <<cvars, lvars>>

\* ------------------------------------------------- storage::DICTIONARIES

Workers == 1..MaxWorkers

\* u8::is_ascii_whitespace: space, tab, line feed, form feed, carriage return.
is_ascii_whitespace(c) == c \in {9, 10, 12, 13, 32}

RECURSIVE SplitAsciiWhitespaceFrom(_, _)
\* The pieces of s between runs of ASCII whitespace, cur being the piece under
\* way; there are no empty pieces.
SplitAsciiWhitespaceFrom(s, cur) ==
    LET piece == IF cur = <<>> THEN {} ELSE {cur}
    IN  IF s = <<>> THEN piece
        ELSE IF is_ascii_whitespace(Head(s))
            THEN piece \cup SplitAsciiWhitespaceFrom(Tail(s), <<>>)
        ELSE SplitAsciiWhitespaceFrom(Tail(s), Append(cur, Head(s)))

\* let hash_set: HashSet<&str> = content.split_ascii_whitespace().collect();
split_ascii_whitespace(content) == SplitAsciiWhitespaceFrom(content, <<>>)

\* DICTIONARIES_DIR.files(): file k has the path "d<k>" and holds the word
\* "and" on one line and a word of k letters a on the next.
DICTIONARIES_DIR ==
    [k \in 1..MaxFiles |->
        [path |-> <<100, 48 + k>>,
         contents |-> AndText \o <<10>> \o [i \in 1..k |-> 97] \o <<32, 10>>]]

\* HashMap::new()
HashMap_new == [p \in {} |-> {}]

\* entries.insert(filename, hash_set)
HashMap_insert(map, key, value) ==
    [p \in DOMAIN map \cup {key} |-> IF p = key THEN value ELSE map[p]]

\* The file the initialiser's loop is at: it has inserted the ones before.
NextFile == Cardinality(DOMAIN entries) + 1

\* No thread has touched DICTIONARIES: the OnceCell is empty and the Lazy holds
\* its initialiser.
LazyUntouched ==
    /\ cell_state = "INCOMPLETE"
    /\ lazy_init = TRUE
    /\ entries = HashMap_new
    /\ cell_value = None
    /\ init_runs = 0
    /\ worker_waited = {}

\* No thread accesses DICTIONARIES but through a call of crack.
IdleLazy ==
    /\ LazyUntouched
    /\ worker_pc = <<>>
    /\ worker_seen = <<>>

\* MaxWorkers threads are about to access DICTIONARIES, the embedded files
\* being UTF-8 or not.
InitLazy ==
    /\ LazyUntouched
    /\ worker_pc = [w \in Workers |-> "idle"]
    /\ worker_seen = [w \in Workers |-> None]
    /\ corpus_utf8 \in BOOLEAN
    /\ dictionaries = "uninit"
    /\ call_text = <<>>
    /\ call_checker = "CheckEnglish"
    /\ call_stage = "idle"
    /\ call_decoder = ""
    /\ loop_shift = 0
    /\ loop_decoded_strings = <<>>
    /\ call_results = NoResults
    /\ call_checks = <<>>

\* What the steps of an access leave alone.
LazyFrame ==
    /\ UNCHANGED <<call_text, call_checker, call_stage, call_decoder, loop_shift,
                   loop_decoded_strings, call_results, call_checks, corpus_utf8>>
    /\ UNCHANGED dvars

\* The thread is in Lazy::force and has not settled what the cell's state is:
\* it has just arrived, or it was woken from its wait.
AtCell(w) == worker_pc[w] \in {"idle", "waiting"}

\* OnceCell::get_or_init finds the cell COMPLETE: the thread has &HashMap, the
\* cell's value.
ForceComplete(w) ==
    /\ AtCell(w)
    /\ cell_state = "COMPLETE"
    /\ worker_pc' = [worker_pc EXCEPT ![w] = "read"]
    /\ worker_seen' = [worker_seen EXCEPT ![w] = cell_value]
    /\ UNCHANGED <<cell_state, lazy_init, entries, cell_value, init_runs, worker_waited, dictionaries>>
    /\ LazyFrame

\* An access that starts the initialiser whenever the cell is not COMPLETE,
\* a running initialiser notwithstanding: no one-time initialisation.
ForceBegins_NoOnce(w) ==
    /\ AtCell(w)
    /\ cell_state # "COMPLETE"
    /\ cell_state' = "RUNNING"
    /\ lazy_init' = FALSE
    /\ init_runs' = init_runs + 1
    /\ entries' = HashMap_new
    /\ worker_pc' = [worker_pc EXCEPT ![w] = "initialising"]
    /\ UNCHANGED <<cell_value, worker_seen, worker_waited, dictionaries>>
    /\ LazyFrame

\* The thread finds the cell INCOMPLETE and wins the exchange to RUNNING: it
\* takes the initialiser out of the Lazy (this.init.take()) and runs it:
\* let mut entries = HashMap::new();
ForceBegins(w) ==
    /\ AtCell(w)
    /\ cell_state = "INCOMPLETE"
    /\ lazy_init
    /\ cell_state' = "RUNNING"
    /\ lazy_init' = FALSE
    /\ init_runs' = init_runs + 1
    /\ entries' = HashMap_new
    /\ worker_pc' = [worker_pc EXCEPT ![w] = "initialising"]
    /\ UNCHANGED <<cell_value, worker_seen, worker_waited, dictionaries>>
    /\ LazyFrame

\* The thread finds the cell INCOMPLETE and the initialiser taken, a former run
\* of it having panicked: panic!("Lazy instance has previously been poisoned").
ForcePoisoned(w) ==
    /\ AtCell(w)
    /\ cell_state = "INCOMPLETE"
    /\ ~lazy_init
    /\ worker_pc' = [worker_pc EXCEPT ![w] = "panicked"]
    /\ UNCHANGED <<cell_state, lazy_init, entries, cell_value, init_runs, worker_seen, worker_waited, dictionaries>>
    /\ LazyFrame

\* The thread finds the cell RUNNING and blocks until the thread that runs the
\* initialiser is done.
ForceWaits(w) ==
    /\ worker_pc[w] = "idle"
    /\ cell_state = "RUNNING"
    /\ worker_pc' = [worker_pc EXCEPT ![w] = "waiting"]
    /\ worker_waited' = worker_waited \cup {w}
    /\ UNCHANGED <<cell_state, lazy_init, entries, cell_value, init_runs, worker_seen, dictionaries>>
    /\ LazyFrame

\* for entry in DICTIONARIES_DIR.files() { .. entries.insert(filename, hash_set); }
\* one turn of the loop, on a file that is UTF-8.
InitInserts(w) ==
    /\ worker_pc[w] = "initialising"
    /\ NextFile <= MaxFiles
    /\ corpus_utf8 \/ NextFile < MaxFiles
    /\ LET entry == DICTIONARIES_DIR[NextFile]
           hash_set == split_ascii_whitespace(entry.contents)
       IN  entries' = HashMap_insert(entries, entry.path, hash_set)
    /\ UNCHANGED <<cell_state, lazy_init, cell_value, init_runs, worker_pc, worker_seen, worker_waited, dictionaries>>
    /\ LazyFrame

\* entry.contents_utf8().expect(..) on a file that is not UTF-8: the
\* initialiser panics, the cell is INCOMPLETE again and the waiting threads
\* are woken.
InitPanics(w) ==
    /\ worker_pc[w] = "initialising"
    /\ NextFile <= MaxFiles
    /\ ~corpus_utf8
    /\ cell_state' = "INCOMPLETE"
    /\ dictionaries' = "poisoned"
    /\ worker_pc' = [worker_pc EXCEPT ![w] = "panicked"]
    /\ UNCHANGED <<lazy_init, entries, cell_value, init_runs, worker_seen, worker_waited>>
    /\ LazyFrame

\* The initialiser returns entries: the cell takes it as its value and is
\* COMPLETE, the waiting threads are woken, and the thread has &HashMap.
InitReturns(w) ==
    /\ worker_pc[w] = "initialising"
    /\ NextFile > MaxFiles
    /\ cell_value' = Some(entries)
    /\ cell_state' = "COMPLETE"
    /\ dictionaries' = "ready"
    /\ worker_pc' = [worker_pc EXCEPT ![w] = "read"]
    /\ worker_seen' = [worker_seen EXCEPT ![w] = Some(entries)]
    /\ UNCHANGED <<lazy_init, entries, init_runs, worker_waited>>
    /\ LazyFrame

\* No call of crack is under way.
IdleCrack ==
    /\ call_text = <<>>
    /\ call_checker = "CheckAthena"
    /\ call_stage = "idle"
    /\ call_decoder = ""
    /\ loop_shift = 0
    /\ loop_decoded_strings = <<>>
    /\ call_results = NoResults
    /\ call_checks = <<>>
    /\ corpus_utf8 = TRUE
    /\ dictionaries = "uninit"

\* No call of run is under way.
IdleRun ==
    /\ components = <<>>
    /\ pc = <<>>
    /\ full = FALSE
    /\ panicked = FALSE
    /\ chan = <<>>
    /\ sent = <<>>
    /\ received = <<>>
    /\ all_results = <<>>
    /\ phase = "idle"
    /\ ret = NotReturned

\* One call of Decoders::run, on any registry of up to MaxStrategies strategies.
Init == InitRun /\ IdleCrack /\ IdleLazy

Next ==
    \/ \E i \in Strategies : StartCrack(i)
    \/ \E i \in Strategies : CrackReturns(i)
    \/ \E i \in Strategies : SendResult(i)
    \/ \E i \in Strategies : ClosureReturns(i)
    \/ ParallelPhaseEnds
    \/ Receive
    \/ ReceiveDisconnected

Spec == Init /\ [][Next]_vars

\* The same call of run with the scheduling the code relies on: the worker
\* threads and the caller's thread keep taking steps while a step is possible
\* (every crack terminates).
FairSpec == Init /\ [][Next]_vars /\ WF_vars(Next)

\* One call of one strategy's crack, or of the checker, on any text of Texts.
InitStrategy == InitCrack /\ IdleRun /\ IdleLazy

SpecCrack == InitStrategy /\ [][NextCrack]_vars

\* ------------------------------------------------ caesar, applied on its own

\* The largest shift crack calls caesar with: for shift in 1..=25.
MaxShift == 25

\* The texts caesar is applied to: the generated ones, and every ASCII letter.
CaesarTexts == Texts \cup {<<c>> : c \in (65..90) \cup (97..122)}

\* caesar(text, shift) is about to be called, for a text and a shift of 1..25.
InitCaesar ==
    /\ call_text \in CaesarTexts
    /\ loop_shift \in 1..MaxShift
    /\ call_stage = "ready"
    /\ call_checker = "CheckAthena"
    /\ call_decoder = ""
    /\ loop_decoded_strings = <<>>
    /\ call_results = NoResults
    /\ call_checks = <<>>
    /\ corpus_utf8 = TRUE
    /\ dictionaries = "uninit"
    /\ IdleRun
    /\ IdleLazy

\* caesar(cipher, shift), in either build: where the u8 arithmetic overflows, a
\* build with overflow checks panics and one without computes on.
CaesarApplied(cipher, shift, stage) ==
    /\ \/ /\ caesar_overflows(cipher, shift)
          /\ call_stage' = "panicked"
          /\ UNCHANGED loop_decoded_strings
       \/ /\ call_stage' = stage
          /\ loop_decoded_strings' = Append(loop_decoded_strings, caesar(cipher, shift))
    /\ UNCHANGED <<call_text, call_checker, call_decoder, loop_shift, call_results, call_checks, corpus_utf8, dictionaries>>
    /\ UNCHANGED <<dvars, lvars>>

\* let shifted = caesar(text, shift);
CaesarShifts ==
    /\ call_stage = "ready"
    /\ CaesarApplied(call_text, loop_shift, "shifted")

\* let back = caesar(&shifted, (26 - shift) % 26);
CaesarShiftsBack ==
    /\ call_stage = "shifted"
    /\ CaesarApplied(loop_decoded_strings[1], (26 - loop_shift) % 26, "shifted back")

NextCaesar == CaesarShifts \/ CaesarShiftsBack

SpecCaesar == InitCaesar /\ [][NextCaesar]_vars

\* ------------------------------------- DICTIONARIES, accessed by several threads

\* MaxWorkers threads access DICTIONARIES, in any interleaving.
InitAccess == InitLazy /\ IdleRun

NextAccess ==
    \/ \E w \in Workers : ForceComplete(w)
    \/ \E w \in Workers : ForceBegins(w)
    \/ \E w \in Workers : ForcePoisoned(w)
    \/ \E w \in Workers : ForceWaits(w)
    \/ \E w \in Workers : InitInserts(w)
    \/ \E w \in Workers : InitPanics(w)
    \/ \E w \in Workers : InitReturns(w)

SpecAccess == InitAccess /\ [][NextAccess]_vars

\* ---------------------------------------------------- claims on Decoders::run

\* The registered strategies whose crack(text) yields success = true.
Successes == {i \in Strategies : components[i] = "success"}

\* The invocations that ran and produced a CrackResult.
Produced == {i \in Strategies : pc[i] \in {"cracked", "sent", "returned"}}

FirstSuccess == CHOOSE i \in Successes : \A j \in Successes : i <= j

Returned == ret.variant \in {"Break", "Continue"}

\* C1 (as claimed): when exactly one registered strategy's crack yields
\* success = true, run returns Break carrying exactly that strategy's
\* CrackResult, under every interleaving.
C1_ShortCircuit ==
    (phase = "done" /\ Cardinality(Successes) = 1)
        => \E i \in Successes : ret = Break(CrackResultOf(i))

\* C1, on the runs in which no registered strategy panics: the property holds.
C1_ShortCircuit_NoFault ==
    (phase = "done" /\ Cardinality(Successes) = 1
        /\ \A i \in Strategies : components[i] # "fault")
        => \E i \in Successes : ret = Break(CrackResultOf(i))

\* C2 (as claimed): when no registered strategy's crack yields success = true,
\* run returns Continue with exactly one CrackResult per registered strategy.
C2_Exhaustion ==
    (phase = "done" /\ Successes = {})
        => /\ ret.variant = "Continue"
           /\ Len(ret.value) = Len(components)
           /\ \A i \in Strategies : \E k \in 1..Len(ret.value) : ret.value[k].decoder = i

\* C2, on the runs in which no registered strategy panics: the property holds.
C2_Exhaustion_NoFault ==
    (phase = "done" /\ Successes = {} /\ \A i \in Strategies : components[i] # "fault")
        => /\ ret.variant = "Continue"
           /\ Len(ret.value) = Len(components)
           /\ \A i \in Strategies : \E k \in 1..Len(ret.value) : ret.value[k].decoder = i

\* C3 (as claimed): a strategy's panic is caught and becomes a "no result"
\* outcome of that strategy alone: run still returns Break or Continue, and
\* every other strategy's outcome is what it is without the panic (a Continue
\* holds the CrackResult of every strategy that did not panic).
C3_FaultIsolation ==
    (phase = "done" /\ \E i \in Strategies : pc[i] = "panicked")
        => /\ Returned
           /\ ret.variant = "Continue" =>
                \A i \in Strategies : components[i] # "fault" =>
                    \E k \in 1..Len(ret.value) : ret.value[k] = CrackResultOf(i)

\* C4 (as claimed): run's result is always one of the two variants; Break
\* carries one CrackResult with success = true that a registered strategy
\* produced; Continue carries only CrackResults with success = false; and run
\* returns Break if and only if an invoked strategy produced success = true.
C4_ResultVariant ==
    phase = "done"
        => /\ Returned
           /\ ret.variant = "Break" =>
                /\ ret.value.success
                /\ \E i \in Produced : ret.value = CrackResultOf(i)
           /\ ret.variant = "Continue" =>
                \A k \in 1..Len(ret.value) : ~ret.value[k].success
           /\ ret.variant = "Break" <=> \E i \in Produced : CrackResultOf(i).success

\* C4, for the calls of run that return: the variant invariant holds.
C4_ResultVariant_WhenReturned ==
    (phase = "done" /\ Returned)
        => /\ ret.variant = "Break" =>
                /\ ret.value.success
                /\ \E i \in Produced : ret.value = CrackResultOf(i)
           /\ ret.variant = "Continue" =>
                \A k \in 1..Len(ret.value) : ~ret.value[k].success
           /\ ret.variant = "Break" <=> \E i \in Produced : CrackResultOf(i).success

\* C8 (as claimed): when several registered strategies would succeed, the match
\* run returns is that of the first successful strategy in registry order,
\* whatever the scheduling.
C8_FirstInRegistryOrderWins ==
    (ret.variant = "Break" /\ Cardinality(Successes) >= 2)
        => ret.value.decoder = FirstSuccess

\* C8 (amended): the match run returns is the first successful CrackResult in
\* send order, the order in which the strategies' results reached the channel;
\* it is the outcome of one of the successful strategies.
C8_FirstSentWins ==
    ret.variant = "Break"
        => /\ ret.value.decoder \in Successes
           /\ \E k \in 1..Len(sent) :
                /\ sent[k] = ret.value
                /\ \A j \in 1..(k - 1) : ~sent[j].success

\* C8's case: two strategies succeeded, both sent, and the match is not the
\* first of them in registry order.
C8_Witness ==
    /\ ret.variant = "Break"
    /\ Cardinality(Successes \cap Produced) >= 2
    /\ ret.value.decoder # FirstSuccess

\* How often strategy i's CrackResult occurs in the sequence s.
Occurrences(s, i) == Cardinality({k \in 1..Len(s) : s[k].decoder = i})

\* C9: every invocation that ran to its send has sent its CrackResult exactly
\* once (and none before); what the consumer has received followed by what is
\* still queued is exactly what was sent, in order, so nothing is received
\* twice or lost; a Continue collection holds every strategy's outcome once.
C9_ChannelIntegrity ==
    /\ \A i \in Strategies :
        Occurrences(sent, i) = IF pc[i] \in {"sent", "returned"} THEN 1 ELSE 0
    /\ \A k \in 1..Len(sent) : sent[k] = CrackResultOf(sent[k].decoder)
    /\ received \o chan = sent
    /\ ret.variant = "Continue" =>
        /\ ret.value = sent
        /\ \A i \in Strategies : Occurrences(ret.value, i) = 1

\* C9's case: several strategies sent concurrently and the consumer drained
\* the channel to exhaustion.
C9_Witness ==
    /\ ret.variant = "Continue"
    /\ Len(ret.value) >= 2
    /\ ret.value[1].decoder > ret.value[2].decoder

\* ------------------------------------------------- claims on the strategies

\* A call of a strategy's crack has returned its CrackResult.
CrackHasReturned == call_stage = "returned" /\ call_decoder # ""

\* C5: for each of the six strategies, crack("", checker) never panics, calls
\* no checker, and returns a CrackResult with success = false and
\* unencrypted_text = None.
C5_EmptyTextNoResult ==
    (call_text = <<>> /\ call_decoder # "")
        => /\ call_stage # "panicked"
           /\ call_checks = <<>>
           /\ call_stage = "caesar" => loop_shift = 1
           /\ call_stage = "returned" =>
                /\ call_results.success = FALSE
                /\ call_results.unencrypted_text = None

\* C5's case: the Reverse strategy's crack has returned on the empty text.
C5_Witness ==
    /\ call_text = <<>>
    /\ call_decoder = "Reverse"
    /\ call_stage = "returned"

\* The outputs the no-op guard is to reject: empty, the input itself, or the
\* input up to leading and trailing whitespace.
IsNoOp(output, input) ==
    \/ output = <<>>
    \/ output = input
    \/ Trim(output) = Trim(input)

\* C6 (as claimed): whatever the strategy, a crack whose transform output is a
\* no-op on the input never returns success = true; a successful CrackResult's
\* candidate is the transform output the checker accepted.
C6_NoOpGuard ==
    (CrackHasReturned /\ call_results.success)
        => ~IsNoOp(call_results.unencrypted_text.val[1], call_text)

\* C6, for the five strategies that call check_string_success: it holds.
C6_NoOpGuard_GuardedStrategies ==
    (CrackHasReturned /\ call_results.success /\ call_decoder # "Reverse")
        => ~IsNoOp(call_results.unencrypted_text.val[1], call_text)

\* C6's failing case: Reverse returned success = true on a palindrome.
C6_ReversePalindromeSucceeds ==
    /\ CrackHasReturned
    /\ call_decoder = "Reverse"
    /\ call_text = <<110, 111, 111, 110>>
    /\ call_results.success
    /\ call_results.unencrypted_text = Some(<<call_text>>)

\* C7: in every CrackResult a crack returns, success = true implies a first
\* candidate that is present and non-empty, and the verdict recorded is the
\* positive one the checker gave on that candidate (the last check crack made);
\* a CrackResult without candidates has success = false.
C7_OutcomeInvariant ==
    CrackHasReturned
        => /\ call_results.success =>
                /\ call_results.unencrypted_text.some
                /\ Len(call_results.unencrypted_text.val) >= 1
                /\ call_results.unencrypted_text.val[1] # <<>>
                /\ call_checks # <<>>
                /\ LET verdict == call_checks[Len(call_checks)]
                   IN  /\ ~verdict.panicked
                       /\ verdict.res.is_identified
                       /\ verdict.res.text = call_results.unencrypted_text.val[1]
                       /\ verdict.res.checker_name = call_results.checker_name
           /\ (~call_results.unencrypted_text.some
                 \/ call_results.unencrypted_text.val = <<>>)
                => ~call_results.success

\* C7's case: Z85's crack returned success = true on "vprOM" with the
\* candidate "aaaa".
C7_Witness ==
    /\ CrackHasReturned
    /\ call_decoder = "Z85"
    /\ call_text = <<118, 112, 114, 79, 77>>
    /\ call_results.success
    /\ call_results.unencrypted_text = Some(<<<<97, 97, 97, 97>>>>)

\* C10: every check of the combined checker invokes the pattern checker first;
\* when that is positive the check returns its positive verdict and invokes
\* nothing else ("192.168.0.1"); when it is negative the lexical checker is
\* invoked second ("and"), a positive answer of it is returned, and when it is
\* negative too the check returns a negative verdict.
C10_AthenaOrdering ==
    call_checker = "CheckAthena" =>
        \A k \in 1..Len(call_checks) :
            LET c == call_checks[k]
                n == Len(c.invoked)
                text == IF c.panicked THEN <<>> ELSE c.res.text
            IN  /\ n \in {1, 2}
                /\ c.invoked[1].name = "LemmeKnow"
                /\ c.invoked[1].answer = "yes" =>
                        /\ n = 1
                        /\ ~c.panicked
                        /\ c.res.is_identified
                        /\ c.res.checker_name = "LemmeKnow"
                /\ c.invoked[1].answer # "yes" =>
                        /\ c.invoked[1].answer = "no"
                        /\ n = 2
                        /\ c.invoked[2].name = "English"
                        /\ c.invoked[2].answer = "yes" =>
                                /\ ~c.panicked
                                /\ c.res.is_identified
                                /\ c.res.checker_name = "English"
                        /\ c.invoked[2].answer = "no" =>
                                /\ ~c.panicked
                                /\ c.res.is_identified = FALSE
                        /\ c.panicked <=> c.invoked[2].answer = "panic"
                /\ text = IpAddressText =>
                        /\ c.res.is_identified
                        /\ c.invoked = <<Invoked("LemmeKnow", "yes")>>
                /\ text = AndText =>
                        /\ c.res.is_identified
                        /\ c.invoked = <<Invoked("LemmeKnow", "no"), Invoked("English", "yes")>>

\* C10's case: the combined checker was called on "and", the pattern checker
\* said no and the lexical checker, invoked second, said yes.
C10_Witness ==
    /\ call_checker = "CheckAthena"
    /\ call_stage = "checked"
    /\ call_text = AndText
    /\ call_checks[1].invoked = <<Invoked("LemmeKnow", "no"), Invoked("English", "yes")>>
    /\ call_checks[1].res.is_identified

\* The characters of the URL-safe base64 alphabet, and the padding character.
IsBase64UrlChar(c) ==
    \/ c \in 65..90
    \/ c \in 97..122
    \/ c \in 48..57
    \/ c \in {45, 95, 61}

\* Ciphertext the Base64-URL strategy is to reject: a character outside the
\* alphabet (so '+', '/', a space, any multi-byte character), a length that no
\* encoding has (one more than a multiple of 4), or decoded bytes that are not
\* UTF-8.
Base64UrlMalformed(text) ==
    \/ \E k \in 1..Len(text) : ~IsBase64UrlChar(text[k])
    \/ Len(text) % 4 = 1
    \/ LET decoded == base64_decode_url_safe(as_bytes(text))
       IN  decoded.some /\ ~Utf8Valid(decoded.val, 1)

\* Ciphertext the Z85 strategy is to reject: a length that is no multiple of
\* 5, a character outside the alphabet, or decoded bytes that are not UTF-8.
Z85Malformed(text) ==
    \/ Len(as_bytes(text)) % 5 # 0
    \/ \E k \in 1..Len(text) : IndexOf(Z85Alphabet, text[k]) = -1
    \/ LET decoded == z85_decode(as_bytes(text))
       IN  decoded.some /\ ~Utf8Valid(decoded.val, 1)

\* C11: on malformed ciphertext the Base64-URL and the Z85 strategy do not
\* panic, never invoke the checker, and return a CrackResult with no candidate
\* and success = false.
C11_MalformedRejected ==
    (\/ call_decoder = "base64_url" /\ Base64UrlMalformed(call_text)
     \/ call_decoder = "Z85" /\ Z85Malformed(call_text))
        => /\ call_stage = "returned"
           /\ call_checks = <<>>
           /\ call_results.unencrypted_text = None
           /\ call_results.success = FALSE

\* C11's case: Z85's crack has returned on "%nSc0", which decodes to four
\* bytes FF, no UTF-8.
C11_Witness ==
    /\ call_decoder = "Z85"
    /\ call_stage = "returned"
    /\ call_text = <<37, 110, 83, 99, 48>>
    /\ z85_decode(as_bytes(call_text)) = Some(<<255, 255, 255, 255>>)

\* C12: whenever the Reverse strategy's crack returns, on a non-empty input its
\* one candidate is the input's character sequence in reverse order, and it
\* returns no candidate on the empty input only.
C12_ReverseCandidate ==
    (call_decoder = "Reverse" /\ call_stage = "returned")
        => /\ call_results.unencrypted_text.some <=> call_text # <<>>
           /\ call_text # <<>> =>
                LET candidates == call_results.unencrypted_text.val
                    n == Len(call_text)
                IN  /\ Len(candidates) = 1
                    /\ Len(candidates[1]) = n
                    /\ \A k \in 1..n : candidates[1][k] = call_text[n + 1 - k]

\* C12's case: Reverse's crack returned on "stac" with the candidate "cats".
C12_Witness ==
    /\ call_decoder = "Reverse"
    /\ call_stage = "returned"
    /\ call_text = <<115, 116, 97, 99>>
    /\ call_results.unencrypted_text = Some(<<<<99, 97, 116, 115>>>>)

\* C13 (as claimed): a dictionary file that is not UTF-8 fails the process at
\* its start, before any decode request is served: the failure never first
\* surfaces during a call of crack or of the checker, and no call is served
\* with such a corpus.
C13_LoadFailureAtStart ==
    /\ call_stage \notin {"panicked", "check panicked"}
    /\ ~corpus_utf8 => call_stage = "ready"

\* C13's failing case: with a corpus that is not UTF-8 the process started,
\* DICTIONARIES was untouched until Reverse's crack called the lexical checker
\* on "stac" reversed, and the load failure surfaced there as a panic of crack.
C13_FailureDuringCrack ==
    /\ ~corpus_utf8
    /\ call_decoder = "Reverse"
    /\ call_text = <<115, 116, 97, 99>>
    /\ call_stage = "panicked"
    /\ dictionaries = "poisoned"

\* What the code does keep: a call panics only on a corpus that is not UTF-8
\* and only in an access of the lexical checker to DICTIONARIES; until such an
\* access the Lazy is not initialised, whatever the corpus.
C13_LoadFailureAtFirstUse ==
    /\ call_stage \in {"panicked", "check panicked"} =>
        /\ ~corpus_utf8
        /\ dictionaries = "poisoned"
        /\ LET last == call_checks[Len(call_checks)]
           IN  last.panicked /\ last.invoked[Len(last.invoked)] = Invoked("English", "panic")
    /\ dictionaries = "ready" => corpus_utf8
    /\ dictionaries = "poisoned" => ~corpus_utf8

\* ------------------------------------------- claims on run's scheduling

\* A strategy invocation has produced a CrackResult with success = true.
SuccessProduced == \E i \in Produced : CrackResultOf(i).success

\* No invocation that has not started is started in this step.
NoneStarted == \A i \in Strategies : pc[i] = "idle" => pc'[i] = "idle"

\* No invocation is interrupted in this step: one that runs either stays where
\* it is or takes its own next step.
NoneInterrupted ==
    \A i \in Strategies :
        /\ pc[i] = "running" => pc'[i] \in {"running", "cracked", "panicked"}
        /\ pc[i] = "cracked" => pc'[i] \in {"cracked", "sent"}
        /\ pc[i] = "sent" => pc'[i] \in {"sent", "returned"}

SuccessDelivered == \E k \in 1..Len(chan) : chan[k].success

\* C15 (as claimed): the consumer loop takes a delivered successful outcome
\* without awaiting the invocations that are still running: while a success is
\* queued and an invocation is in flight, the consumer can receive.
C15_ConsumerDoesNotAwait ==
    (SuccessDelivered /\ InFlight # {} /\ ret = NotReturned) => ENABLED Receive

\* C15 (amended): the consumer loop runs only after the parallel phase, when
\* no invocation is in flight any more (run awaits the running ones); it then
\* returns the first successful outcome of the channel on receiving it, having
\* received what was sent before it, and what is queued behind it is dropped
\* unread.
C15_ConsumerAfterParallelPhase ==
    /\ phase \in {"recv", "done"} => InFlight = {}
    /\ Len(received) > 0 => phase \in {"recv", "done"}
    /\ ret.variant = "Break" =>
        /\ received \o chan = sent
        /\ ret.value = received[Len(received)]
        /\ \A k \in 1..(Len(received) - 1) : ~received[k].success
        /\ all_results = SubSeq(received, 1, Len(received) - 1)

\* C15's case: run returned a match after every started invocation had
\* finished, and a result delivered behind the match was dropped unread.
C15_Witness ==
    /\ ret.variant = "Break"
    /\ chan # <<>>
    /\ \E i \in Strategies : pc[i] = "returned" /\ ~CrackResultOf(i).success

\* C16: run never deadlocks and always terminates, for any registry, the empty
\* one included: while run has not ended a step is possible; a producer that
\* has its CrackResult can send at once (the receiver is alive, the channel
\* unbounded); the receive loop runs only when no sender is left, so that
\* recv() on the empty queue ends it; and run eventually ends.
C16_RunTerminates ==
    /\ [](phase # "done" => ENABLED Next)
    /\ [](\A i \in Strategies : pc[i] = "cracked" => ENABLED SendResult(i))
    /\ [](phase = "recv" => (InFlight = {} /\ (chan = <<>> => ENABLED ReceiveDisconnected)))
    /\ <>(phase = "done")

\* C16's case: run on the empty registry has ended, with an empty Continue.
C16_Witness ==
    /\ components = <<>>
    /\ phase = "done"
    /\ ret = Continue(<<>>)

\* ------------------------------------------------ claims on the Caesar strategy

\* The text has an ASCII letter: the characters caesar changes.
HasAsciiLetter(text) == \E k \in 1..Len(text) : is_ascii_alphabetic(text[k])

\* The checker was asked about the shifts' outputs in ascending order of the
\* shift, the k-th call being on the output of shift k, and no call before the
\* last gave a positive verdict.
ChecksAscending ==
    \A k \in 1..Len(call_checks) :
        /\ call_checks[k].panicked => k = Len(call_checks)
        /\ ~call_checks[k].panicked =>
            /\ call_checks[k].res.text = caesar(call_text, k)
            /\ k < Len(call_checks) => ~call_checks[k].res.is_identified

\* Some shift's output was identified by the checker: the last call's.
ShiftIdentified ==
    /\ call_checks # <<>>
    /\ ~call_checks[Len(call_checks)].panicked
    /\ call_checks[Len(call_checks)].res.is_identified

\* crack returned at the first identified shift: success, that shift's output
\* as the one candidate, and no larger shift tried.
ReturnedFirstIdentified ==
    /\ call_results.success
    /\ call_results.unencrypted_text = Some(<<caesar(call_text, Len(call_checks))>>)
    /\ loop_shift = Len(call_checks) + 1
    /\ Len(loop_decoded_strings) = Len(call_checks)

\* crack returned after all the shifts: no success, and the 25 outputs as
\* candidates, the i-th that of shift i.
ReturnedAllCandidates ==
    /\ ~call_results.success
    /\ Len(call_checks) = 25
    /\ call_results.unencrypted_text.some
    /\ Len(call_results.unencrypted_text.val) = 25
    /\ \A i \in 1..25 : call_results.unencrypted_text.val[i] = caesar(call_text, i)

\* C17 (as claimed): Caesar's crack tries the shifts 1, 2, .. in ascending
\* order; it returns at the first shift whose output the checker identifies,
\* with success and that output as its one candidate, trying no larger shift;
\* when no shift's output is identified it returns 25 candidates, the i-th the
\* output of shift i, and success = false.
C17_CaesarSearchOrder ==
    call_decoder = "Caesar Cipher" =>
        /\ ChecksAscending
        /\ call_stage = "returned" =>
            IF ShiftIdentified THEN ReturnedFirstIdentified ELSE ReturnedAllCandidates

\* C17 (amended): the same, for the texts that have an ASCII letter; on a text
\* without one the no-op guard stops crack at shift 1 with no candidate.
C17_CaesarSearchOrder_WithLetter ==
    (call_decoder = "Caesar Cipher" /\ HasAsciiLetter(call_text)) =>
        /\ ChecksAscending
        /\ call_stage = "returned" =>
            IF ShiftIdentified THEN ReturnedFirstIdentified ELSE ReturnedAllCandidates

\* C17's case: on "boe" the checker did not identify the output of shift 1 and
\* identified that of shift 2, with which crack returned.
C17_Witness ==
    /\ call_decoder = "Caesar Cipher"
    /\ call_stage = "returned"
    /\ call_text = <<98, 111, 101>>
    /\ Len(call_checks) = 2
    /\ call_results.success
    /\ call_results.unencrypted_text = Some(<<<<100, 113, 103>>>>)

\* C17's other case: no shift's output of "a" was identified, and crack
\* returned the 25 candidates.
C17_WitnessExhausted ==
    /\ call_decoder = "Caesar Cipher"
    /\ call_stage = "returned"
    /\ call_text = <<97>>
    /\ ReturnedAllCandidates

\* C18: the no-op guard rejects the output of shift 1 exactly on the texts
\* without an ASCII letter (the empty text among them); on such a text Caesar's
\* crack stops in its first turn, having generated the output of shift 1 alone
\* and asked no checker, and returns no candidate and success = false; and on
\* no text does the guard reject at a later shift: a crack that returns no
\* candidate has stopped at shift 1.
C18_CaesarStopsAtFirstShift ==
    call_decoder = "Caesar Cipher" =>
        /\ IsNoOp(caesar(call_text, 1), call_text) <=> ~HasAsciiLetter(call_text)
        /\ ~HasAsciiLetter(call_text) =>
            /\ call_stage \in {"caesar", "returned"}
            /\ call_stage = "caesar" => loop_shift = 1
            /\ call_checks = <<>>
            /\ call_stage = "returned" =>
                /\ loop_shift = 2
                /\ loop_decoded_strings = <<call_text>>
                /\ call_results.unencrypted_text = None
                /\ call_results.success = FALSE
        /\ (call_stage = "returned" /\ ~call_results.unencrypted_text.some) =>
            /\ loop_shift = 2
            /\ ~HasAsciiLetter(call_text)
        /\ \A s \in 2..25 : HasAsciiLetter(call_text) => ~IsNoOp(caesar(call_text, s), call_text)

\* C18's case: on "192.168.0.1", a text without a letter, crack has returned
\* from its first turn with no candidate.
C18_Witness ==
    /\ call_decoder = "Caesar Cipher"
    /\ call_stage = "returned"
    /\ call_text = IpAddressText
    /\ loop_shift = 2
    /\ call_results.unencrypted_text = None

\* C19: for every text and every shift s of 1..25, caesar never overflows its
\* u8 arithmetic, on the way there or back; the shifted text keeps each
\* letter's case and every other character, multi-byte ones included; and
\* caesar(caesar(text, s), (26 - s) mod 26) is the text.
C19_CaesarRoundTrip ==
    call_decoder = "" =>
        /\ call_stage # "panicked"
        /\ \A k \in 1..Len(call_text) : ~caesar_char_overflows(call_text[k], loop_shift)
        /\ call_stage \in {"shifted", "shifted back"} =>
            LET shifted == loop_decoded_strings[1]
            IN  /\ Len(shifted) = Len(call_text)
                /\ ~caesar_overflows(shifted, (26 - loop_shift) % 26)
                /\ \A k \in 1..Len(call_text) :
                    /\ call_text[k] \in 97..122 =>
                        (shifted[k] \in 97..122 /\ shifted[k] # call_text[k])
                    /\ call_text[k] \in 65..90 =>
                        (shifted[k] \in 65..90 /\ shifted[k] # call_text[k])
                    /\ call_text[k] \notin (65..90) \cup (97..122) =>
                        shifted[k] = call_text[k]
        /\ call_stage = "shifted back" => loop_decoded_strings[2] = call_text

\* C19's case: "Zz" was shifted by 25 to "Yy" and shifted back by 1 to "Zz".
C19_Witness ==
    /\ call_stage = "shifted back"
    /\ call_text = <<90, 122>>
    /\ loop_shift = 25
    /\ loop_decoded_strings = <<<<89, 121>>, <<90, 122>>>>

\* ------------------------------------------------- claims on the Morse strategy

\* The tokens of the text: what lies between its spaces.
MorseTokens(text) == split(text, 32)

\* The token is a key of the Morse table.
IsMorseKey(token) == \E p \in morse_to_alphanumeric_dictionary : p[1] = token

\* The characters the table maps the tokens to, concatenated in token order.
MorseConcatenation(tokens) ==
    Flatten([k \in 1..Len(tokens) |->
        (CHOOSE p \in morse_to_alphanumeric_dictionary : p[1] = tokens[k])[2]])

\* C20 (as claimed): when Morse's crack returns, if some token of the text is
\* no key of the table there is no candidate and success = false; otherwise
\* the candidate is the concatenation of the mapped characters in token order.
C20_MorseAllOrNothing ==
    (call_decoder = "Morse Code" /\ call_stage = "returned") =>
        LET tokens == MorseTokens(call_text)
        IN  IF \E k \in 1..Len(tokens) : ~IsMorseKey(tokens[k])
            THEN /\ call_results.unencrypted_text = None
                 /\ call_results.success = FALSE
                 /\ call_checks = <<>>
            ELSE call_results.unencrypted_text = Some(<<MorseConcatenation(tokens)>>)

\* C20 (amended): the same, except that when every token is a key and the
\* concatenation is empty (the text is empty or made of spaces only) there is
\* no candidate either: the no-op guard rejects the empty output.
C20_MorseAllOrNothing_NonEmpty ==
    (call_decoder = "Morse Code" /\ call_stage = "returned") =>
        LET tokens == MorseTokens(call_text)
        IN  IF \E k \in 1..Len(tokens) : ~IsMorseKey(tokens[k])
            THEN /\ call_results.unencrypted_text = None
                 /\ call_results.success = FALSE
                 /\ call_checks = <<>>
            ELSE IF MorseConcatenation(tokens) = <<>>
            THEN /\ call_results.unencrypted_text = None
                 /\ call_results.success = FALSE
                 /\ \A k \in 1..Len(call_text) : call_text[k] = 32
            ELSE call_results.unencrypted_text = Some(<<MorseConcatenation(tokens)>>)

\* C20's case: ".- -. -.." gave the candidate "AND".
C20_Witness ==
    /\ call_decoder = "Morse Code"
    /\ call_stage = "returned"
    /\ call_text = <<46, 45, 32, 45, 46, 32, 45, 46, 46>>
    /\ call_results.unencrypted_text = Some(<<<<65, 78, 68>>>>)

\* C20's other case: ".- a" has one token of the table and one that is not,
\* and gave no candidate.
C20_WitnessRejected ==
    /\ call_decoder = "Morse Code"
    /\ call_stage = "returned"
    /\ call_text = <<46, 45, 32, 97>>
    /\ call_results.unencrypted_text = None

\* The separator tokens of Morse: the literal "/" and the empty token, which
\* two consecutive spaces of the text produce.
IsMorseSeparator(token) == token = <<47>> \/ token = <<>>

\* The characters the tokens decode to when each separator token stands for a
\* single space and every other token for its character of the table.
MorseSeparatorsAsSpaces(tokens) ==
    Flatten([k \in 1..Len(tokens) |->
        IF IsMorseSeparator(tokens[k]) THEN <<32>>
        ELSE (CHOOSE p \in morse_to_alphanumeric_dictionary : p[1] = tokens[k])[2]])

\* C21: in the Morse table the "/" token and the empty token both map to a
\* single space: a candidate that Morse's crack returns has one space where
\* the text has a "/" token and one where it has an empty token.
C21_MorseSeparatorsMapToSpace ==
    (call_decoder = "Morse Code" /\ call_stage = "returned"
        /\ call_results.unencrypted_text # None) =>
        call_results.unencrypted_text = Some(<<MorseSeparatorsAsSpaces(MorseTokens(call_text))>>)

\* The half of C21 that holds: the "/" token maps to a single space, so a
\* candidate of a text without an empty token has a space for every "/".
C21_SlashMapsToSpace ==
    /\ \A p \in morse_to_alphanumeric_dictionary : p[1] = <<47>> => p[2] = <<32>>
    /\ (call_decoder = "Morse Code" /\ call_stage = "returned"
            /\ call_results.unencrypted_text # None
            /\ \A k \in 1..Len(MorseTokens(call_text)) : MorseTokens(call_text)[k] # <<>>) =>
        call_results.unencrypted_text = Some(<<MorseSeparatorsAsSpaces(MorseTokens(call_text))>>)

\* C21's failing case: ".-  -." has an empty token between its two letters and
\* gave the candidate "AN", with nothing where the empty token stood.
C21_EmptyTokenDropped ==
    /\ call_decoder = "Morse Code"
    /\ call_stage = "returned"
    /\ call_text = <<46, 45, 32, 32, 45, 46>>
    /\ call_results.unencrypted_text = Some(<<<<65, 78>>>>)

\* C21's other case: ".- / -." has a "/" token and gave the candidate "A N".
C21_SlashDecoded ==
    /\ call_decoder = "Morse Code"
    /\ call_stage = "returned"
    /\ call_text = <<46, 45, 32, 47, 32, 45, 46>>
    /\ call_results.unencrypted_text = Some(<<<<65, 32, 78>>>>)

\* ------------------------------------------------ claims on the Base91 strategy

\* The characters of the basE91 alphabet.
IsBase91Char(c) == IndexOf(Base91Alphabet, c) # -1

\* Text that is no Base91 encoding of text: a character outside the alphabet
\* (a space, '-', any multi-byte character), or decoded bytes that are not
\* UTF-8.
Base91Malformed(text) ==
    \/ \E k \in 1..Len(text) : ~IsBase91Char(text[k])
    \/ ~from_utf8(base91_slice_decode(as_bytes(text))).some

\* C22: when Base91's crack returns on a non-empty text that is no Base91
\* encoding of text, the CrackResult has no candidate (unencrypted_text is
\* None) rather than a garbage candidate, and the checker was not invoked.
C22_Base91RejectsNonBase91 ==
    (call_decoder = "base91" /\ call_stage = "returned"
        /\ call_text # <<>> /\ Base91Malformed(call_text)) =>
        /\ call_results.unencrypted_text = None
        /\ call_results.success = FALSE
        /\ call_checks = <<>>

\* What holds of Base91's crack instead: the decode never fails, so the only
\* texts without a candidate are those whose lossy decode the no-op guard
\* rejects; on every other text the candidate is the lossy decode, U+FFFD
\* standing for what is not UTF-8, and the checker has seen it.
C22_Base91OnlyGuardRejects ==
    (call_decoder = "base91" /\ call_stage = "returned") =>
        LET decoded == from_utf8_lossy(base91_slice_decode(as_bytes(call_text)))
        IN  IF check_string_success(decoded, call_text)
            THEN /\ call_results.unencrypted_text = Some(<<decoded>>)
                 /\ Len(call_checks) = 1
                 /\ ~call_checks[1].panicked
                 /\ call_checks[1].res.text = decoded
            ELSE /\ call_results.unencrypted_text = None
                 /\ call_checks = <<>>

\* C22's failing case: "hello my name is panicky mc panic face!" has spaces,
\* which are no characters of the alphabet, and its other characters decode to
\* bytes that are not UTF-8; crack returned a candidate full of U+FFFD.
C22_GarbageCandidate ==
    /\ call_decoder = "base91"
    /\ call_stage = "returned"
    /\ Len(call_text) = 39
    /\ Base91Malformed(call_text)
    /\ call_results.unencrypted_text =
         Some(<<<<714, 65533, 65533, 65533, 7, 65533, 65533, 104, 1583, 65533, 111,
                 22, 74, 61, 106, 65533, 65533, 65533, 65533, 66, 65533, 65533, 66,
                 65533>>>>)

\* ------------------------------------------------- claims on DICTIONARIES

\* The map is the fully populated one: an entry for every file of the
\* directory, and in the entry of file k the two words the file holds.
FullyPopulated(map) ==
    /\ DOMAIN map = {<<100, 48 + k>> : k \in 1..MaxFiles}
    /\ \A k \in 1..MaxFiles : map[<<100, 48 + k>>] = {AndText, [i \in 1..k |-> 97]}

\* A thread has gone into its access of DICTIONARIES.
SomeAccess == \E w \in DOMAIN worker_pc : worker_pc[w] # "idle"

\* C23: with several threads accessing DICTIONARIES, several racing on the
\* first access included, the initialiser runs exactly once (never twice, and
\* once as soon as a thread has accessed); every thread that reads observes
\* the same, fully populated mapping and the cell never holds a partly built
\* one; and once the cell holds the mapping no step changes or removes it.
C23_InitialisedOnce ==
    /\ [](init_runs <= 1)
    /\ [](SomeAccess => init_runs = 1)
    /\ [](\A w \in DOMAIN worker_pc :
            IF worker_pc[w] = "read"
            THEN /\ worker_seen[w].some
                 /\ FullyPopulated(worker_seen[w].val)
                 /\ worker_seen[w] = cell_value
            ELSE worker_seen[w] = None)
    /\ [](cell_value.some => cell_state = "COMPLETE" /\ FullyPopulated(cell_value.val))
    /\ [][cell_value.some => cell_value' = cell_value /\ cell_state' = cell_state]_vars

\* C23's case: every thread has read the mapping, two of them after blocking
\* on the initialiser that a third was running; it ran once.
C23_Witness ==
    /\ \A w \in Workers : worker_pc[w] = "read" /\ worker_seen[w] = cell_value
    /\ Cardinality(worker_waited) >= 2
    /\ init_runs = 1
    /\ cell_value.some
    /\ FullyPopulated(cell_value.val)

\* C23's other case: the threads race while the initialiser has inserted some
\* files and not all; the cell holds nothing yet and a thread waits.
C23_WitnessRace ==
    /\ cell_state = "RUNNING"
    /\ entries # HashMap_new
    /\ NextFile <= MaxFiles
    /\ cell_value = None
    /\ \E w \in Workers : worker_pc[w] = "waiting"

\* C23 when a file is not UTF-8: the initialiser ran once and panicked, and
\* every later access panics without running it again or reading anything.
C23_WitnessPoisoned ==
    /\ ~corpus_utf8
    /\ init_runs = 1
    /\ Cardinality({w \in Workers : worker_pc[w] = "panicked"}) >= 2
    /\ cell_value = None

====
